---- MODULE Spec2Model ----
(***************************************************************************)
(* CircleDemo (src/src/circle.rs): the circuit x^2 + y^2 = r^2 synthesized *)
(* into a rank-1 constraint system, and the setup / prove / verify driver  *)
(* of test_circle_proof.  The field Fr is modelled by the integers modulo  *)
(* FieldModulus.  An Option<Fr> is a sequence: <<>> is None, <<v>> is      *)
(* Some(v).                                                                *)
(***************************************************************************)
EXTENDS Integers, Sequences, FiniteSets, TLC

\* ---------------------------------------------------------------- bounds
FieldModulus == 5
MaxFaultAt == 6
MaxAttempts == 2

\* ----------------------------------------------------------- field, Option
Field == 0 .. (FieldModulus - 1)

None == <<>>

Some(v) == <<v>>

OptField == {None} \cup {Some(v) : v \in Field}

FromStr(n) == Some(n % FieldModulus)

Square(e) == (e * e) % FieldModulus

\* mutant: the derived value is the value itself, not its square
SquareValId(o) == o

\* x_val.map(|mut e| { e.square(); e })
SquareVal(o) ==
    IF o = None THEN None ELSE Some(Square(o[1]))

\* mutant: an absent value defaults to zero (unwrap_or) instead of failing
OkOrDefault(o) ==
    IF o = None
    THEN [ok |-> TRUE, val |-> Some(0), err |-> ""]
    ELSE [ok |-> TRUE, val |-> o, err |-> ""]

\* a value provider's result: Ok(val) or Err(err)
OkOr(o) ==
    IF o = None
    THEN [ok |-> FALSE, val |-> None, err |-> "AssignmentMissing"]
    ELSE [ok |-> TRUE, val |-> o, err |-> ""]

\* ------------------------------------------------ variables, combinations
NoVar == [kind |-> "None", index |-> 0]

One == [kind |-> "Input", index |-> 0]

NoLocals ==
    [x |-> NoVar, x_square |-> NoVar, y |-> NoVar, y_square |-> NoVar,
     r |-> NoVar, r_square |-> NoVar]

LcZero == <<>>

LcAdd(lc, v) == Append(lc, [var |-> v, coeff |-> 1])

\* --------------------------------------------------- the constraint system
\* kind "setup": records structure only, never evaluates a value provider;
\* kind "prove": evaluates every provider and records its value;
\* kind "faulty": structure only, and its faultAt-th allocation fails.
FreshCS(kind, faultAt) ==
    [kind |-> kind, faultAt |-> faultAt,
     input |-> <<IF kind = "prove" THEN Some(1) ELSE None>>,
     aux |-> <<>>, allocs |-> <<>>, constraints |-> <<>>, trace |-> <<>>]

Alloc(c, op, name, provider) ==
    LET issued(e) == [c EXCEPT !.trace = Append(@, [op |-> op, name |-> name, err |-> e])]
        isInput == (op = "alloc_input")
        var == IF isInput THEN [kind |-> "Input", index |-> Len(c.input)]
                          ELSE [kind |-> "Aux", index |-> Len(c.aux)]
        push(v) == [issued("") EXCEPT
                      !.input = IF isInput THEN Append(@, v) ELSE @,
                      !.aux = IF isInput THEN @ ELSE Append(@, v),
                      !.allocs = Append(@, [name |-> name, var |-> var])]
    IN  IF c.kind = "faulty" /\ Len(c.allocs) + 1 = c.faultAt
        THEN [err |-> "BackendFault", cs |-> issued("BackendFault"), var |-> NoVar]
        ELSE IF c.kind = "prove"
        THEN IF provider.ok
             THEN [err |-> "", cs |-> push(provider.val), var |-> var]
             ELSE [err |-> provider.err, cs |-> issued(provider.err), var |-> NoVar]
        ELSE [err |-> "", cs |-> push(None), var |-> var]

Enforce(c, name, a, b, cc) ==
    [c EXCEPT !.trace = Append(@, [op |-> "enforce", name |-> name, err |-> ""]),
              !.constraints = Append(@, [name |-> name, a |-> a, b |-> b, c |-> cc])]

\* the topology a constraint system has recorded, without the assignment
Structure(c) ==
    [numInputs |-> Len(c.input), numAux |-> Len(c.aux),
     allocs |-> c.allocs, constraints |-> c.constraints]

\* ------------------------------------------------------------ R1CS values
ValueOf(c, v) ==
    IF v.kind = "Input" THEN c.input[v.index + 1] ELSE c.aux[v.index + 1]

RECURSIVE Eval(_, _)
Eval(c, lc) ==
    IF lc = <<>> THEN 0
    ELSE (lc[1].coeff * ValueOf(c, lc[1].var)[1] + Eval(c, Tail(lc))) % FieldModulus

Satisfied(c, con) ==
    (Eval(c, con.a) * Eval(c, con.b)) % FieldModulus = Eval(c, con.c)

AllSatisfied(c) ==
    \A i \in 1 .. Len(c.constraints) : Satisfied(c, c.constraints[i])

\* ------------------------------------------------------------------ state
VARIABLES phase, attempt, circuit, cs, pc, result, local, params, prev,
          proof, verdict

vars == <<phase, attempt, circuit, cs, pc, result, local, params, prev,
          proof, verdict>>

NoCircuit == [x |-> None, y |-> None, r |-> None]

Concrete(c) == c.x # None /\ c.y # None /\ c.r # None

OnCircle(c) ==
    (Square(c.x[1]) + Square(c.y[1])) % FieldModulus = Square(c.r[1])

NoParams == [numInputs |-> 0, numAux |-> 0, allocs |-> <<>>, constraints |-> <<>>]

NoOutcome == [result |-> "none", cs |-> FreshCS("setup", 0)]

NoProof == [status |-> "none", instance |-> <<>>]

NoVerdict == [status |-> "none", inputs |-> <<>>, accept |-> FALSE]

\* generate_random_parameters(CircleDemo { x: None, y: None, r: None }, rng)
Init ==
    /\ phase = "setup"
    /\ attempt = 1
    /\ circuit = NoCircuit
    /\ cs = FreshCS("setup", 0)
    /\ pc = 0
    /\ result = "running"
    /\ local = NoLocals
    /\ params = NoParams
    /\ prev = NoOutcome
    /\ proof = NoProof
    /\ verdict = NoVerdict

\* ------------------------------------------------------------- synthesize
Running == phase \in {"setup", "prove"} /\ result = "running"

\* mutant: a failed allocation is swallowed and synthesis carries on
AllocStepSwallow(step, op, name, provider) ==
    /\ Running
    /\ pc = step
    /\ LET out == Alloc(cs, op, name, provider)
       IN  /\ cs' = out.cs
           /\ local' = [local EXCEPT ![name] = out.var]
    /\ pc' = step + 1
    /\ UNCHANGED <<phase, attempt, circuit, result, params, prev, proof, verdict>>

\* let v = cs.alloc(|| name, || provider)?;
AllocStep(step, op, name, provider) ==
    /\ Running
    /\ pc = step
    /\ LET out == Alloc(cs, op, name, provider)
       IN  /\ cs' = out.cs
           /\ IF out.err = ""
              THEN /\ local' = [local EXCEPT ![name] = out.var]
                   /\ pc' = step + 1
                   /\ result' = result
              ELSE /\ result' = out.err
                   /\ UNCHANGED <<local, pc>>
    /\ UNCHANGED <<phase, attempt, circuit, params, prev, proof, verdict>>

EnforceStep(step, name, a, b, c) ==
    /\ Running
    /\ pc = step
    /\ cs' = Enforce(cs, name, a, b, c)
    /\ pc' = step + 1
    /\ UNCHANGED <<phase, attempt, circuit, result, local, params, prev, proof, verdict>>

\* mutant: the value is unwrapped before the call, outside the closure
AllocXEager ==
    IF circuit.x = None
    THEN /\ Running
         /\ pc = 0
         /\ result' = "AssignmentMissing"
         /\ UNCHANGED <<phase, attempt, circuit, cs, pc, local, params, prev, proof, verdict>>
    ELSE AllocStep(0, "alloc", "x", OkOr(circuit.x))

AllocX ==
    AllocStep(0, "alloc", "x", OkOr(circuit.x))

AllocXSquare ==
    AllocStep(1, "alloc", "x_square", OkOr(SquareVal(circuit.x)))

EnforceXSquare ==
    EnforceStep(2, "x_square", LcAdd(LcZero, local.x), LcAdd(LcZero, local.x),
                LcAdd(LcZero, local.x_square))

AllocY ==
    AllocStep(3, "alloc", "y", OkOr(circuit.y))

\* mutant: y_square is allocated as a public input
AllocYSquarePublic ==
    AllocStep(4, "alloc_input", "y_square", OkOr(SquareVal(circuit.y)))

AllocYSquare ==
    AllocStep(4, "alloc", "y_square", OkOr(SquareVal(circuit.y)))

\* mutant: copy-and-paste slip, y * y = x_square
EnforceYSquareTypo ==
    EnforceStep(5, "y_square", LcAdd(LcZero, local.y), LcAdd(LcZero, local.y),
                LcAdd(LcZero, local.x_square))

EnforceYSquare ==
    EnforceStep(5, "y_square", LcAdd(LcZero, local.y), LcAdd(LcZero, local.y),
                LcAdd(LcZero, local.y_square))

\* mutant: the public input carries r * r instead of r
AllocRPublishesSquare ==
    AllocStep(6, "alloc_input", "r", OkOr(SquareVal(circuit.r)))

AllocR ==
    AllocStep(6, "alloc_input", "r", OkOr(circuit.r))

AllocRSquare ==
    AllocStep(7, "alloc", "r_square", OkOr(SquareVal(circuit.r)))

EnforceRSquare ==
    EnforceStep(8, "r_square", LcAdd(LcZero, local.r), LcAdd(LcZero, local.r),
                LcAdd(LcZero, local.r_square))

\* mutant: the closing constraint is enforced only when r is known
EnforceCircleIfKnown ==
    IF circuit.r = None
    THEN /\ Running
         /\ pc = 9
         /\ pc' = 10
         /\ UNCHANGED <<phase, attempt, circuit, cs, result, local, params, prev, proof, verdict>>
    ELSE EnforceStep(9, "circle", LcAdd(LcAdd(LcZero, local.x_square), local.y_square),
                     LcAdd(LcZero, One), LcAdd(LcZero, local.r_square))

EnforceCircle ==
    EnforceStep(9, "circle", LcAdd(LcAdd(LcZero, local.x_square), local.y_square),
                LcAdd(LcZero, One), LcAdd(LcZero, local.r_square))

\* mutant: the circuit checks the relation itself before returning
ReturnOkValidating ==
    /\ Running
    /\ pc = 10
    /\ result' = IF cs.kind = "prove" /\ Concrete(circuit) /\ ~OnCircle(circuit)
                 THEN "Unsatisfiable" ELSE "Ok"
    /\ UNCHANGED <<phase, attempt, circuit, cs, pc, local, params, prev, proof, verdict>>

\* Ok(())
ReturnOk ==
    /\ Running
    /\ pc = 10
    /\ result' = "Ok"
    /\ UNCHANGED <<phase, attempt, circuit, cs, pc, local, params, prev, proof, verdict>>

Synthesize ==
    \/ AllocX \/ AllocXSquare \/ EnforceXSquare
    \/ AllocY \/ AllocYSquare \/ EnforceYSquare
    \/ AllocR \/ AllocRSquare \/ EnforceRSquare
    \/ EnforceCircle \/ ReturnOk

\* ----------------------------------------------------------------- driver
\* let params = generate_random_parameters(c, rng).unwrap()
GenerateParameters ==
    /\ phase = "setup"
    /\ result = "Ok"
    /\ params' = Structure(cs)
    /\ phase' = "keyed"
    /\ UNCHANGED <<attempt, circuit, cs, pc, result, local, prev, proof, verdict>>

\* a second synthesis, of a circuit with any optional values, against a
\* backend that requires values or against one that fails an allocation
StartProof ==
    /\ phase = "keyed"
    /\ \E x \in OptField, y \in OptField, r \in OptField, k \in 0 .. MaxFaultAt :
         /\ circuit' = [x |-> x, y |-> y, r |-> r]
         /\ cs' = IF k = 0 THEN FreshCS("prove", 0) ELSE FreshCS("faulty", k)
    /\ phase' = "prove"
    /\ attempt' = 1
    /\ pc' = 0
    /\ result' = "running"
    /\ local' = NoLocals
    /\ UNCHANGED <<params, prev, proof, verdict>>

\* the same circuit value synthesized again on a fresh constraint system
Retry ==
    /\ phase = "prove"
    /\ result # "running"
    /\ attempt < MaxAttempts
    /\ prev' = [result |-> result, cs |-> cs]
    /\ cs' = FreshCS(cs.kind, cs.faultAt)
    /\ attempt' = attempt + 1
    /\ pc' = 0
    /\ result' = "running"
    /\ local' = NoLocals
    /\ UNCHANGED <<phase, circuit, params, proof, verdict>>

\* what the prover returns for a finished synthesis: a failed synthesis is
\* returned as its error; a satisfied witness gives a proof of the instance
\* (the public inputs after the reserved one); the prover's reaction to an
\* unsatisfied witness is left open: an error, or a proof that no input
\* vector verifies.
ProofOutcomes(c, res) ==
    IF res # "Ok"
    THEN {[status |-> res, instance |-> <<>>]}
    ELSE IF AllSatisfied(c)
    THEN {[status |-> "valid", instance |-> Tail(c.input)]}
    ELSE {[status |-> "Unsatisfiable", instance |-> <<>>],
          [status |-> "invalid", instance |-> Tail(c.input)]}

\* create_random_proof(c, &params, rng)
CreateProof ==
    /\ phase = "prove"
    /\ cs.kind = "prove"
    /\ result # "running"
    /\ proof' \in ProofOutcomes(cs, result)
    /\ phase' = "proved"
    /\ UNCHANGED <<attempt, circuit, cs, pc, result, local, params, prev, verdict>>

\* verify_proof accepts exactly the instance a valid proof was made for
Accepts(p, inputs) ==
    p.status = "valid" /\ p.instance = inputs

\* verify_proof(&pvk, &proof, &[public_input])
VerifyProof ==
    /\ phase = "proved"
    /\ proof.status \in {"valid", "invalid"}
    /\ \E v \in Field :
         verdict' = [status |-> "done", inputs |-> <<Some(v)>>,
                     accept |-> Accepts(proof, <<Some(v)>>)]
    /\ phase' = "verified"
    /\ UNCHANGED <<attempt, circuit, cs, pc, result, local, params, prev, proof>>

Next ==
    \/ Synthesize
    \/ GenerateParameters
    \/ StartProof
    \/ Retry
    \/ CreateProof
    \/ VerifyProof

Spec == Init /\ [][Next]_vars

\* ------------------------------------------------------ claim vocabulary
\* the current constraint system is the one a value-requiring backend filled
ProveRun == phase \in {"prove", "proved", "verified"} /\ cs.kind = "prove"

Returned == result # "running"

AllocNames(c) == [i \in 1 .. Len(c.allocs) |-> c.allocs[i].name]

Calls(c) == [i \in 1 .. Len(c.trace) |-> [op |-> c.trace[i].op, name |-> c.trace[i].name]]

NameOf(c, v) ==
    IF v = One THEN "one"
    ELSE IF \E i \in 1 .. Len(c.allocs) : c.allocs[i].var = v
    THEN (CHOOSE e \in {c.allocs[i] : i \in 1 .. Len(c.allocs)} : e.var = v).name
    ELSE "unallocated"

NamedLc(c, lc) == [i \in 1 .. Len(lc) |-> <<lc[i].coeff, NameOf(c, lc[i].var)>>]

NamedConstraints(c) ==
    [i \in 1 .. Len(c.constraints) |->
        [a |-> NamedLc(c, c.constraints[i].a),
         b |-> NamedLc(c, c.constraints[i].b),
         c |-> NamedLc(c, c.constraints[i].c)]]

\* the assignment in allocation order, the reserved one first
Witness(c) ==
    <<c.input[1]>> \o [i \in 1 .. Len(c.allocs) |-> ValueOf(c, c.allocs[i].var)]

SixNames == <<"x", "x_square", "y", "y_square", "r", "r_square">>

FixedSequence ==
    << [op |-> "alloc", name |-> "x"],
       [op |-> "alloc", name |-> "x_square"],
       [op |-> "enforce", name |-> "x_square"],
       [op |-> "alloc", name |-> "y"],
       [op |-> "alloc", name |-> "y_square"],
       [op |-> "enforce", name |-> "y_square"],
       [op |-> "alloc_input", name |-> "r"],
       [op |-> "alloc", name |-> "r_square"],
       [op |-> "enforce", name |-> "r_square"],
       [op |-> "enforce", name |-> "circle"] >>

FixedConstraints ==
    << [a |-> << <<1, "x">> >>, b |-> << <<1, "x">> >>, c |-> << <<1, "x_square">> >>],
       [a |-> << <<1, "y">> >>, b |-> << <<1, "y">> >>, c |-> << <<1, "y_square">> >>],
       [a |-> << <<1, "r">> >>, b |-> << <<1, "r">> >>, c |-> << <<1, "r_square">> >>],
       [a |-> << <<1, "x_square">>, <<1, "y_square">> >>, b |-> << <<1, "one">> >>,
        c |-> << <<1, "r_square">> >>] >>

\* the circuit value each allocated variable takes its value from
SourceOf(c, name) ==
    IF name \in {"x", "x_square"} THEN c.x
    ELSE IF name \in {"y", "y_square"} THEN c.y
    ELSE c.r

\* ----------------------------------------------------------------- claims
\* C1 (completeness): when x, y, r are concrete and x*x + y*y = r*r, the
\* proving-style synthesis returns Ok with 4 constraints that the assigned
\* witness all satisfies, proof creation yields a valid proof, and verifying
\* that proof against the public input vector [r] accepts.
C1_Completeness ==
    (ProveRun /\ Concrete(circuit) /\ OnCircle(circuit)) =>
        /\ Returned => /\ result = "Ok"
                       /\ Len(cs.constraints) = 4
                       /\ AllSatisfied(cs)
        /\ proof.status # "none" => proof.status = "valid"
        /\ (verdict.status = "done" /\ verdict.inputs = <<circuit.r>>) => verdict.accept

C1_Witness ==
    /\ phase = "verified"
    /\ circuit = [x |-> FromStr(4), y |-> FromStr(3), r |-> FromStr(5)]
    /\ proof.status = "valid"
    /\ verdict.inputs = <<FromStr(5)>>
    /\ verdict.accept

\* C3 (public-input binding): a valid proof made with public value r is
\* rejected by verification against any public input other than r.
C3_PublicInputBinding ==
    (verdict.status = "done" /\ proof.status = "valid" /\ verdict.inputs # <<circuit.r>>)
        => ~verdict.accept

\* a valid proof for r is rejected for -r, although (-r)*(-r) = r*r
C3_Witness ==
    /\ verdict.status = "done"
    /\ proof.status = "valid"
    /\ circuit.r # None
    /\ verdict.inputs = <<Some((FieldModulus - circuit.r[1]) % FieldModulus)>>
    /\ verdict.inputs # <<circuit.r>>
    /\ Square(verdict.inputs[1][1]) = Square(circuit.r[1])
    /\ ~verdict.accept

\* C4 (structural stability): a completed proving-style synthesis of any
\* concrete x, y, r has recorded exactly the structure the completed setup
\* synthesis (all values absent) recorded: the same numbers of public and
\* private variables, the same variables in the same order and of the same
\* kind, the same constraints over the same variables.
C4_StructuralStability ==
    (ProveRun /\ Concrete(circuit) /\ result = "Ok") =>
        /\ Structure(cs) = params
        /\ Len(params.allocs) = 6
        /\ Len(params.constraints) = 4

C4_Witness ==
    /\ ProveRun
    /\ Concrete(circuit)
    /\ result = "Ok"
    /\ Structure(cs) = params
    /\ cs.aux # [i \in 1 .. Len(cs.aux) |-> None]

\* C5 (missing assignment): against a backend that requires values, a
\* synthesis with x, y or r absent never returns Ok: once it returns, it
\* returns AssignmentMissing; and no variable whose circuit value is absent
\* is ever recorded, with zero or any other value.
C5_MissingAssignment ==
    (ProveRun /\ ~Concrete(circuit)) =>
        /\ result \in {"running", "AssignmentMissing"}
        /\ \A i \in 1 .. Len(cs.allocs) :
              /\ SourceOf(circuit, cs.allocs[i].name) # None
              /\ ValueOf(cs, cs.allocs[i].var) # None

C5_Witness ==
    /\ ProveRun
    /\ circuit.x # None
    /\ circuit.y = None
    /\ result = "AssignmentMissing"
    /\ AllocNames(cs) = <<"x", "x_square">>

\* C6 (setup tolerates absence): the setup synthesis (x = y = r = absent,
\* structure-only backend) never raises AssignmentMissing and returns Ok
\* with exactly the 6 variables x, x_square, y, y_square, r, r_square and
\* exactly 4 constraints recorded.
C6_SetupToleratesAbsence ==
    phase = "setup" =>
        /\ circuit = NoCircuit
        /\ result \in {"running", "Ok"}
        /\ Returned => /\ AllocNames(cs) = SixNames
                       /\ Len(cs.constraints) = 4

C6_Witness ==
    /\ phase = "setup"
    /\ circuit = NoCircuit
    /\ result = "Ok"
    /\ Len(cs.allocs) = 6

\* C7 (fixed sequence): a synthesis that returns Ok has issued exactly the
\* ten backend calls of FixedSequence in that order and recorded exactly the
\* four constraints of FixedConstraints; at every moment each variable a
\* recorded constraint mentions is already allocated; and with values the
\* witness is [one, x, x_square, y, y_square, r, r_square].
C7_FixedSequence ==
    /\ result = "Ok" => /\ Calls(cs) = FixedSequence
                        /\ NamedConstraints(cs) = FixedConstraints
    /\ \A i \in 1 .. Len(cs.constraints) :
          \A lc \in {cs.constraints[i].a, cs.constraints[i].b, cs.constraints[i].c} :
             \A j \in 1 .. Len(lc) : NameOf(cs, lc[j].var) # "unallocated"
    /\ (result = "Ok" /\ cs.kind = "prove") =>
          Witness(cs) = <<Some(1), circuit.x, SquareVal(circuit.x), circuit.y,
                          SquareVal(circuit.y), circuit.r, SquareVal(circuit.r)>>

C7_Witness ==
    /\ ProveRun
    /\ result = "Ok"
    /\ circuit = [x |-> FromStr(4), y |-> FromStr(3), r |-> FromStr(5)]
    /\ Len(cs.trace) = 10
    /\ Witness(cs) = <<Some(1), FromStr(4), FromStr(16), FromStr(3), FromStr(9),
                       FromStr(5), FromStr(25)>>

\* C8 (one public variable): r is the only variable ever allocated as public
\* and it is always allocated as public; after a synthesis that returns Ok
\* the public inputs are the reserved one and r, so the public input vector
\* has length 1, holding the circuit's r when values are recorded.
C8_OnlyRPublic ==
    /\ \A i \in 1 .. Len(cs.allocs) :
          (cs.allocs[i].var.kind = "Input") <=> (cs.allocs[i].name = "r")
    /\ Len(cs.input) <= 2
    /\ result = "Ok" => /\ Len(Tail(cs.input)) = 1
                        /\ Len(cs.aux) = 5
                        /\ cs.kind = "prove" => Tail(cs.input) = <<circuit.r>>

C8_Witness ==
    /\ ProveRun
    /\ result = "Ok"
    /\ Tail(cs.input) = <<circuit.r>>
    /\ circuit.x # circuit.r
    /\ circuit.y # circuit.r
    /\ SquareVal(circuit.r) # circuit.r

\* C9 (immediate propagation): a failed allocation is the last backend call
\* of its synthesis and its error is the synthesis's result; every failure
\* comes from a failed allocation; the calls issued are a prefix of the
\* fixed sequence, and every variable and constraint recorded before the
\* failure is still recorded; synthesizing the same circuit again on a
\* fresh constraint system gives the same result and the same record.
C9_ImmediatePropagation ==
    LET n == Len(cs.trace)
    IN  /\ \A i \in 1 .. n :
              cs.trace[i].err # "" =>
                 /\ i = n
                 /\ cs.trace[i].op # "enforce"
                 /\ result = cs.trace[i].err
        /\ result \notin {"running", "Ok"} => (n >= 1 /\ cs.trace[n].err = result)
        /\ n <= Len(FixedSequence)
        /\ Calls(cs) = SubSeq(FixedSequence, 1, n)
        /\ Len(cs.allocs) =
              Cardinality({i \in 1 .. n : cs.trace[i].op # "enforce" /\ cs.trace[i].err = ""})
        /\ Len(cs.constraints) = Cardinality({i \in 1 .. n : cs.trace[i].op = "enforce"})
        /\ (attempt > 1 /\ Returned) => (result = prev.result /\ cs = prev.cs)

\* the fourth allocation fails, twice: x, x_square, y and the first
\* constraint stay recorded
C9_Witness ==
    /\ attempt = 2
    /\ result = "BackendFault"
    /\ cs.faultAt = 4
    /\ AllocNames(cs) = <<"x", "x_square", "y">>
    /\ Len(cs.constraints) = 1
    /\ prev.result = "BackendFault"
    /\ prev.cs = cs

\* C10 (declares, does not validate): with concrete x, y, r the
\* proving-style synthesis returns Ok, whether or not x*x + y*y = r*r, with
\* 6 variables and 4 constraints; the assigned squares are x*x, y*y, r*r,
\* the three squaring constraints are satisfied, and the closing constraint
\* is satisfied exactly when x*x + y*y = r*r.
C10_DeclaresNotValidates ==
    (ProveRun /\ Concrete(circuit) /\ Returned) =>
        /\ result = "Ok"
        /\ Len(cs.allocs) = 6
        /\ Len(cs.constraints) = 4
        /\ ValueOf(cs, local.x_square) = Some(Square(circuit.x[1]))
        /\ ValueOf(cs, local.y_square) = Some(Square(circuit.y[1]))
        /\ ValueOf(cs, local.r_square) = Some(Square(circuit.r[1]))
        /\ \A i \in 1 .. 3 : Satisfied(cs, cs.constraints[i])
        /\ Satisfied(cs, cs.constraints[4]) <=> OnCircle(circuit)

C10_Witness ==
    /\ ProveRun
    /\ Concrete(circuit)
    /\ ~OnCircle(circuit)
    /\ result = "Ok"
    /\ Len(cs.constraints) = 4
    /\ \A i \in 1 .. 3 : Satisfied(cs, cs.constraints[i])
    /\ ~Satisfied(cs, cs.constraints[4])

====
